---- MODULE Spec2Model ----
(***************************************************************************)
(* A model of encfs' CipherFileIO (src/encfs/CipherFileIO.cpp): the filter *)
(* that sits between the block chunker (BlockFileIO) and the backing file  *)
(* (FileIO), with its per-file IV header, CBC padding, size translation,   *)
(* truncate and the reverse-mode virtual header.                           *)
(*                                                                         *)
(* 64-bit unsigned values (fileIV, the per-block IV) are 8-tuples of bytes *)
(* in big-endian order, so shifts, masks and XOR are exact.  The cipher,   *)
(* the backing file and the chunker are not part of CipherFileIO.cpp; they *)
(* are modelled from their interface.                                      *)
(***************************************************************************)
EXTENDS Integers, Sequences, FiniteSets, TLC

VARIABLES
  reverseEncryption,  \* fsConfig->reverseEncryption
  haveHeader,         \* cfg->config->uniqueIV
  haveCBCPadding,     \* checkCBCPadding(cfg) > 0
  allowHoles,         \* BlockFileIO::_allowHoles
  cfgBlockSize,       \* cfg->config->blockSize
  cipherBlockSize,    \* cipher->cipherBlockSize()
  externalIV,         \* CipherFileIO::externalIV
  fileIV,             \* CipherFileIO::fileIV (8 bytes, big-endian)
  lastFlags,          \* CipherFileIO::lastFlags
  base,               \* the backing entry: [data, openFlags, ino, isDir]
  last,               \* the last call made on the instance and what it did
  wrote,              \* the block stored by the last call, when it was a write
  faults,             \* how many calls of the cipher or the backing file have failed
  sz                  \* the size translation under test (SizeSpec only)

vars == <<reverseEncryption, haveHeader, haveCBCPadding, allowHoles, cfgBlockSize,
          cipherBlockSize, externalIV, fileIV, lastFlags, base, last, wrote, faults, sz>>

cfgvars == <<reverseEncryption, haveHeader, haveCBCPadding, allowHoles, cfgBlockSize,
             cipherBlockSize>>

(***************************************************************************)
(* Program constants.                                                      *)
(***************************************************************************)
HEADER_SIZE == 8
O_RDWR == 2
EPERM == 1
EISDIR == 21
EBADMSG == 74

(***************************************************************************)
(* Bounds of the model.                                                    *)
(***************************************************************************)
\* payload blocks a request may address: block numbers 0 .. MaxBlock
MaxBlock == 1
\* failures of the cipher and the backing file injected in one run
MaxFaults == 1
\* largest plaintext size fed to the size translation
MaxPlainSize == 40
\* largest offset and length of a read of the reverse-mode virtual file
MaxReadOffset == 4
MaxReadLen == 6
\* largest raw size of a backing entry handed to getAttr and getSize
MaxRawSize == 60

(***************************************************************************)
(* Bytes and 64-bit values.                                                *)
(***************************************************************************)
Byte == 0..255

Zero64 == <<0, 0, 0, 0, 0, 0, 0, 0>>

\* (uint64_t) n for a small n
U64(n) == <<0, 0, 0, 0, 0, 0, 0, n>>

RECURSIVE BitXor(_, _)
BitXor(a, b) ==
  IF a = 0 THEN b
  ELSE IF b = 0 THEN a
  ELSE (((a % 2) + (b % 2)) % 2) + (2 * BitXor(a \div 2, b \div 2))

\* blockNum ^ fileIV, for blockNum < 256
Xor64(blockNum, iv) == [iv EXCEPT ![8] = BitXor(iv[8], blockNum)]

Zeros(n) == [i \in 1..n |-> 0]

AllZero(buf) == \A i \in 1..Len(buf) : buf[i] = 0

Min(a, b) == IF a < b THEN a ELSE b

\* flags | O_RDWR
OrRDWR(flags) == IF (flags \div O_RDWR) % 2 = 1 THEN flags ELSE flags + O_RDWR

(***************************************************************************)
(* The cipher (Cipher.h): a keyed byte transform that depends on the IV    *)
(* and on the mode.  Decoding undoes encoding under the same IV and mode,  *)
(* and under no other.  Block mode refuses a length that is not a multiple *)
(* of the cipher block size.                                               *)
(***************************************************************************)
IVSum(iv) == ((iv[1] + iv[2] + iv[3] + iv[4] + iv[5] + iv[6] + iv[7] + iv[8]) % 100)

StreamKey(iv) == (2 * IVSum(iv)) + 1

BlockKey(iv) == (2 * IVSum(iv)) + 2

Shift(buf, key) == [i \in 1..Len(buf) |-> (buf[i] + key) % 256]

Unshift(buf, key) == [i \in 1..Len(buf) |-> (buf[i] + 256 - key) % 256]

\* A call of the cipher or the backing file is logged with its name, the
\* site it is made from and two numbers (offset or flags, length).
Call(name, site, a, b) == [call |-> name, site |-> site, a |-> a, b |-> b]

Log(c, name, site, a, b) == [c EXCEPT !.calls = Append(@, Call(name, site, a, b))]

\* f is the fault injected into this call of the instance: the site that
\* fails and the error the backing file reports there.
Fails(f, site) == f.site = site

streamEncode(c, f, site, buf, iv) ==
  [c |-> Log(c, "streamEncode", site, 0, Len(buf)),
   ok |-> ~Fails(f, site),
   buf |-> IF Fails(f, site) THEN buf ELSE Shift(buf, StreamKey(iv))]

streamDecode(c, f, site, buf, iv) ==
  [c |-> Log(c, "streamDecode", site, 0, Len(buf)),
   ok |-> ~Fails(f, site),
   buf |-> IF Fails(f, site) THEN buf ELSE Unshift(buf, StreamKey(iv))]

blockEncode(c, f, site, buf, iv) ==
  LET good == ~Fails(f, site) /\ Len(buf) % cipherBlockSize = 0 IN
  [c |-> Log(c, "blockEncode", site, 0, Len(buf)),
   ok |-> good,
   buf |-> IF good THEN Shift(buf, BlockKey(iv)) ELSE buf]

blockDecode(c, f, site, buf, iv) ==
  LET good == ~Fails(f, site) /\ Len(buf) % cipherBlockSize = 0 IN
  [c |-> Log(c, "blockDecode", site, 0, Len(buf)),
   ok |-> good,
   buf |-> IF good THEN Unshift(buf, BlockKey(iv)) ELSE buf]

(***************************************************************************)
(* The backing file (FileIO.h).  c is the state one call of the instance   *)
(* works on: the instance's fields, the backing file and the call log.     *)
(***************************************************************************)
RequestWrite(flags) == (flags \div O_RDWR) % 2 = 1

baseIsWritable(c) == RequestWrite(c.openFlags)

baseGetSize(c) == Len(c.data)

baseOpen(c, f, site, flags) ==
  LET c1 == Log(c, "open", site, flags, 0) IN
  IF c.isDir /\ RequestWrite(flags) THEN [c |-> c1, res |-> 0 - EISDIR]
  ELSE IF Fails(f, site) THEN [c |-> c1, res |-> f.err]
  ELSE [c |-> [c1 EXCEPT !.openFlags = flags], res |-> 0]

baseRead(c, f, site, offset, dataLen) ==
  LET c1 == Log(c, "read", site, offset, dataLen)
      n == IF offset >= Len(c.data) THEN 0 ELSE Min(dataLen, Len(c.data) - offset)
  IN IF Fails(f, site) THEN [c |-> c1, res |-> f.err, buf |-> <<>>]
     ELSE [c |-> c1, res |-> n, buf |-> SubSeq(c.data, offset + 1, offset + n)]

\* the file with buf stored at offset, a gap before it reading as zeros
Stored(data, offset, buf) ==
  LET newLen == IF offset + Len(buf) > Len(data) THEN offset + Len(buf) ELSE Len(data)
  IN [i \in 1..newLen |->
        IF i > offset /\ i <= offset + Len(buf) THEN buf[i - offset]
        ELSE IF i <= Len(data) THEN data[i]
        ELSE 0]

baseWrite(c, f, site, offset, buf) ==
  LET c1 == Log(c, "write", site, offset, Len(buf)) IN
  IF Fails(f, site) \/ ~baseIsWritable(c) THEN [c |-> c1, res |-> f.err]
  ELSE [c |-> [c1 EXCEPT !.data = Stored(c.data, offset, buf)], res |-> Len(buf)]

Resized(data, size) == [i \in 1..size |-> IF i <= Len(data) THEN data[i] ELSE 0]

baseTruncate(c, f, site, size) ==
  LET c1 == Log(c, "truncate", site, size, 0) IN
  IF Fails(f, site) THEN [c |-> c1, res |-> f.err]
  ELSE [c |-> [c1 EXCEPT !.data = Resized(c.data, size)], res |-> 0]

baseSetIV(c, f, iv) ==
  [c |-> Log(c, "setIV", "baseSetIV", iv, 0), ok |-> ~Fails(f, "baseSetIV")]

\* rAssert(cond): throws when cond is false; the call in progress ends there.
Throw(c) == [c EXCEPT !.threw = TRUE]

(***************************************************************************)
(* The result of a call is computed once and then named, as a C++ local    *)
(* is:  The({ e(x) : x \in {v} })  is e(v).                                *)
(***************************************************************************)
The(S) == CHOOSE v \in S : TRUE

(***************************************************************************)
(* The header manager.                                                     *)
(***************************************************************************)
\* for (i = 0; i < 8; ++i) fileIV = (fileIV << 8) | buf[i];
RECURSIVE ReadIVLoop(_, _, _)
ReadIVLoop(i, iv, buf) ==
  IF i >= 8 THEN iv
  ELSE ReadIVLoop(i + 1, Append(Tail(iv), buf[i + 1]), buf)

\* A writeHeader that stores the low byte first: the header no longer
\* parses back as the value that was written (C14).
RECURSIVE WriteIVLoopLittleEndian(_, _, _)
WriteIVLoopLittleEndian(i, iv, buf) ==
  IF i >= 8 THEN [fileIV |-> iv, buf |-> buf]
  ELSE WriteIVLoopLittleEndian(i + 1, <<0>> \o SubSeq(iv, 1, 7),
                               [buf EXCEPT ![i + 1] = iv[8]])

\* for (i = 0; i < 8; ++i) { buf[7 - i] = fileIV & 0xff; fileIV >>= 8; }
RECURSIVE WriteIVLoop(_, _, _)
WriteIVLoop(i, iv, buf) ==
  IF i >= 8 THEN [fileIV |-> iv, buf |-> buf]
  ELSE WriteIVLoop(i + 1, <<0>> \o SubSeq(iv, 1, 7), [buf EXCEPT ![8 - i] = iv[8]])

\* do { randomize(buf); fileIV = ...; } while (fileIV == 0);
\* rnd holds the buffers randomize produces, in order.
RECURSIVE RandomLoop(_, _)
RandomLoop(rnd, i) ==
  IF ReadIVLoop(0, Zero64, rnd[i]) = Zero64 /\ i < Len(rnd) THEN RandomLoop(rnd, i + 1)
  ELSE [fileIV |-> ReadIVLoop(0, Zero64, rnd[i]), buf |-> rnd[i]]

initHeader(c, f, rnd) ==
  IF baseGetSize(c) >= HEADER_SIZE
  THEN The({
         IF r.res < 0 THEN [c |-> r.c, res |-> r.res]
         ELSE The({
                IF ~d.ok THEN [c |-> d.c, res |-> 0 - EBADMSG]
                ELSE The({
                       IF iv = Zero64 THEN [c |-> Throw([d.c EXCEPT !.fileIV = iv]), res |-> 0]
                       ELSE [c |-> [d.c EXCEPT !.fileIV = iv], res |-> 0]
                       : iv \in {ReadIVLoop(0, Zero64, d.buf)} })
                : d \in {streamDecode(r.c, f, "hdrDecode", r.buf, U64(c.externalIV))} })
         : r \in {baseRead(c, f, "hdrRead", 0, 8)} })
  ELSE IF Fails(f, "random")
  THEN [c |-> Log(c, "randomize", "random", 0, 8), res |-> 0 - EBADMSG]
  ELSE The({
         IF baseIsWritable(c)
         THEN The({
                IF ~e.ok THEN [c |-> e.c, res |-> 0 - EBADMSG]
                ELSE The({
                       IF w.res < 0 THEN [c |-> w.c, res |-> w.res]
                       ELSE [c |-> w.c, res |-> 0]
                       : w \in {baseWrite(e.c, f, "hdrWrite", 0, e.buf)} })
                : e \in {streamEncode([Log(c, "randomize", "random", 0, 8)
                                         EXCEPT !.fileIV = g.fileIV],
                                      f, "hdrEncode", g.buf, U64(c.externalIV))} })
         ELSE [c |-> [Log(c, "randomize", "random", 0, 8) EXCEPT !.fileIV = g.fileIV],
               res |-> 0]
         : g \in {RandomLoop(rnd, 1)} })

writeHeader(c, f) ==
  The({
    The({
      IF ~e.ok THEN [c |-> e.c, ok |-> FALSE]
      ELSE The({ [c |-> w.c, ok |-> w.res >= 0]
                 : w \in {baseWrite(e.c, f, "hdrWrite", 0, e.buf)} })
      : e \in {streamEncode([c EXCEPT !.fileIV = l.fileIV], f, "hdrEncode", l.buf,
                            U64(c.externalIV))} })
    : l \in {WriteIVLoop(0, c.fileIV, Zeros(8))} })

setIV(c, f, rnd, iv) ==
  IF c.externalIV = 0
  THEN baseSetIV([c EXCEPT !.externalIV = iv], f, iv)
  ELSE IF haveHeader
  THEN The({
         IF o.res < 0
         THEN IF o.res = 0 - EISDIR
              THEN baseSetIV([o.c EXCEPT !.externalIV = iv], f, iv)
              ELSE [c |-> o.c, ok |-> FALSE]
         ELSE The({
                IF h.res < 0 \/ h.c.threw THEN [c |-> h.c, ok |-> FALSE]
                ELSE The({
                       IF ~w.ok
                       THEN [c |-> [w.c EXCEPT !.externalIV = h.c.externalIV], ok |-> FALSE]
                       ELSE baseSetIV(w.c, f, iv)
                       : w \in {writeHeader([h.c EXCEPT !.externalIV = iv], f)} })
                : h \in {IF o.c.fileIV = Zero64 THEN initHeader(o.c, f, rnd)
                         ELSE [c |-> o.c, res |-> 0]} })
         : o \in {baseOpen(c, f, "open", OrRDWR(c.lastFlags))} })
  ELSE baseSetIV(c, f, iv)

(***************************************************************************)
(* Block sizes and size translation.                                       *)
(***************************************************************************)
\* checkCBCPadding(cfg), for a mount of the given direction
checkCBCPadding(rev) == IF haveCBCPadding THEN (IF rev THEN 2 ELSE 1) ELSE 0

\* A constructor that forgets the padding byte of a normal-mode block: the
\* size translations of the two directions are no longer inverse (C9).
BlockSizeOfUnadjusted(rev) == cfgBlockSize

\* BlockFileIO(cfg->config->blockSize - checkCBCPadding(cfg) % 2, cfg)
BlockSizeOf(rev) == cfgBlockSize - (checkCBCPadding(rev) % 2)

blockSize == BlockSizeOf(reverseEncryption)

\* getSize() on a backing file of the given raw size: the size, or an
\* assertion failure (threw)
getSizeOf(rev, size) ==
  IF ~rev
  THEN LET bad1 == haveHeader /\ size > 0 /\ size < HEADER_SIZE
           s1 == IF haveHeader /\ size > 0 THEN size - HEADER_SIZE ELSE size
           bad2 == haveCBCPadding /\ s1 > 0 /\ s1 < cipherBlockSize
           s2 == IF haveCBCPadding /\ s1 > 0
                 THEN (s1 - cipherBlockSize)
                      - ((s1 - cipherBlockSize) \div (BlockSizeOf(rev) + 1))
                 ELSE s1
       IN [threw |-> bad1 \/ (~bad1 /\ bad2), size |-> IF bad1 \/ bad2 THEN size ELSE s2]
  ELSE IF size > 0
  THEN LET s1 == IF haveCBCPadding
                 THEN size + ((size - 1) \div (BlockSizeOf(rev) - 1)) + cipherBlockSize
                 ELSE size
           s2 == IF haveHeader THEN s1 + HEADER_SIZE ELSE s1
       IN [threw |-> FALSE, size |-> s2]
  ELSE [threw |-> FALSE, size |-> size]

getSize(c) == getSizeOf(reverseEncryption, baseGetSize(c))

\* A getAttr that adjusts the size of every entry, regular file or not: a
\* directory's st_size no longer passes through (C22).
getAttrOfAnyType(rev, res, reg, size) == getSizeOf(rev, size)

\* getAttr() when base->getAttr returned res and left st_size = size for an
\* entry that is a regular file (reg) or not: the st_size it leaves, or an
\* assertion failure (threw)
getAttrOf(rev, res, reg, size) ==
  IF ~(res = 0 /\ reg) THEN [threw |-> FALSE, size |-> size]
  ELSE IF ~rev
  THEN IF haveHeader /\ size > 0 /\ ~(size >= HEADER_SIZE)
       THEN [threw |-> TRUE, size |-> size]
       ELSE The({
              IF haveCBCPadding /\ s1 > 0
              THEN IF ~(s1 >= cipherBlockSize) THEN [threw |-> TRUE, size |-> s1]
                   ELSE The({ [threw |-> FALSE, size |-> s2 - (s2 \div (BlockSizeOf(rev) + 1))]
                              : s2 \in {s1 - cipherBlockSize} })
              ELSE [threw |-> FALSE, size |-> s1]
              : s1 \in {IF haveHeader /\ size > 0 THEN size - HEADER_SIZE ELSE size} })
  ELSE IF size > 0
  THEN The({ [threw |-> FALSE, size |-> IF haveHeader THEN s1 + HEADER_SIZE ELSE s1]
             : s1 \in {IF haveCBCPadding
                       THEN (size + ((size - 1) \div (BlockSizeOf(rev) - 1))) + cipherBlockSize
                       ELSE size} })
  ELSE [threw |-> FALSE, size |-> size]

(***************************************************************************)
(* The block transform.                                                    *)
(***************************************************************************)
blockWrite(c, f, buf, iv) ==
  IF ~reverseEncryption THEN blockEncode(c, f, "cipher", buf, iv)
  ELSE blockDecode(c, f, "cipher", buf, iv)

streamWrite(c, f, buf, iv) ==
  IF ~reverseEncryption THEN streamEncode(c, f, "cipher", buf, iv)
  ELSE streamDecode(c, f, "cipher", buf, iv)

streamRead(c, f, buf, iv) ==
  IF reverseEncryption THEN streamEncode(c, f, "cipher", buf, iv)
  ELSE streamDecode(c, f, "cipher", buf, iv)

\* A blockRead that decodes a full block in stream mode, the mode its
\* write did not use: the block no longer reads back (C6).
blockReadAsStream(c, f, buf, iv) == streamRead(c, f, buf, iv)

blockRead(c, f, buf, iv) ==
  IF reverseEncryption THEN blockEncode(c, f, "cipher", buf, iv)
  ELSE IF allowHoles /\ AllZero(buf) THEN [c |-> c, ok |-> TRUE, buf |-> buf]
  ELSE blockDecode(c, f, "cipher", buf, iv)

\* A readOneBlock that does not skip the zero bytes after the 0x80 marker:
\* a block padded with zeros is taken for a malformed one (C19).
TrailingZerosNotSkipped(buf, readSize, padBytes) == padBytes

\* while ((padBytes < readSize) && (data[readSize - padBytes - 1] == 0x00)) padBytes++;
RECURSIVE TrailingZeros(_, _, _)
TrailingZeros(buf, readSize, padBytes) ==
  IF padBytes < readSize /\ buf[readSize - padBytes] = 0
  THEN TrailingZeros(buf, readSize, padBytes + 1)
  ELSE padBytes

\* the padded branch of readOneBlock, after the backing read of readSize0
\* bytes; readSize is readSize0 less readSize0 % cbs
readPadded(c, f, buf, readSize0, blockNum) ==
  IF ~reverseEncryption
  THEN The({
         IF readSize > 0
         THEN The({
                IF d.ok
                THEN The({
                       IF allowHoles /\ padBytes = readSize /\ readSize = blockSize + 1
                       THEN [c |-> d.c, res |-> readSize - 1, buf |-> d.buf]
                       ELSE IF (readSize - padBytes) > 1 /\ d.buf[readSize - padBytes] = 128
                       THEN [c |-> d.c, res |-> readSize - (padBytes + 1), buf |-> d.buf]
                       ELSE [c |-> d.c, res |-> 0 - EBADMSG, buf |-> d.buf]
                       : padBytes \in {TrailingZeros(d.buf, readSize, 0)} })
                ELSE [c |-> d.c, res |-> 0 - EBADMSG, buf |-> d.buf]
                : d \in {blockRead(c, f, SubSeq(buf, 1, readSize),
                                   Xor64(blockNum, c.fileIV))} })
         ELSE [c |-> c, res |-> readSize, buf |-> buf]
         : readSize \in {readSize0 - (readSize0 % cipherBlockSize)} })
  ELSE [c |-> c, res |-> readSize0, buf |-> buf]

\* the raw offset and length readOneBlock asks the backing file for
ReadOffset(offset, dataLen) ==
  (IF haveCBCPadding /\ ~reverseEncryption THEN offset + (offset \div dataLen) ELSE offset)
  + (IF haveHeader /\ ~reverseEncryption THEN HEADER_SIZE ELSE 0)

ReadLen(dataLen) ==
  IF haveCBCPadding /\ ~reverseEncryption THEN dataLen + 1 ELSE dataLen

readOneBlock(c, f, rnd, offset, dataLen) ==
  The({
    The({
      IF h.res < 0 \/ h.c.threw THEN [c |-> h.c, res |-> h.res, buf |-> r.buf]
      ELSE IF haveCBCPadding /\ r.res >= 0
      THEN readPadded(h.c, f, r.buf, r.res, offset \div blockSize)
      ELSE IF r.res > 0
      THEN The({ [c |-> d.c, res |-> IF d.ok THEN r.res ELSE 0 - EBADMSG, buf |-> d.buf]
                 : d \in {IF r.res # blockSize
                          THEN streamRead(h.c, f, r.buf,
                                          Xor64(offset \div blockSize, h.c.fileIV))
                          ELSE blockRead(h.c, f, r.buf,
                                         Xor64(offset \div blockSize, h.c.fileIV))} })
      ELSE [c |-> h.c, res |-> r.res, buf |-> r.buf]
      : h \in {IF haveHeader /\ r.c.fileIV = Zero64 /\ r.res > 0
               THEN initHeader(r.c, f, rnd)
               ELSE [c |-> r.c, res |-> 0]} })
    : r \in {baseRead(c, f, "read", ReadOffset(offset, dataLen), ReadLen(dataLen))} })

\* A writeOneBlock that forgets the header in front of the payload: block 0
\* lands on the header (C10).
WriteOffsetNoHeader(offset) == offset

\* if (haveHeader) tmpReq.offset += HEADER_SIZE;
WriteOffset(offset) == IF haveHeader THEN offset + HEADER_SIZE ELSE offset

\* A writeOneBlock that accepts writes to a reverse mount with per-file
\* IVs: the write reaches the cipher and the backing file (C15).
WriteRefusedNever == FALSE

\* if (haveHeader && fsConfig->reverseEncryption) return -EPERM;
WriteRefused == haveHeader /\ reverseEncryption

writeOneBlock(c, f, rnd, offset, buf) ==
  IF WriteRefused THEN [c |-> c, res |-> 0 - EPERM]
  ELSE The({
         IF h.res < 0 \/ h.c.threw THEN [c |-> h.c, res |-> h.res]
         ELSE The({
                IF e.ok THEN baseWrite(e.c, f, "write", WriteOffset(offset), e.buf)
                ELSE [c |-> e.c, res |-> 0 - EBADMSG]
                : e \in {IF Len(buf) # blockSize
                         THEN streamWrite(h.c, f, buf, Xor64(offset \div blockSize, h.c.fileIV))
                         ELSE blockWrite(h.c, f, buf, Xor64(offset \div blockSize, h.c.fileIV))} })
         : h \in {IF haveHeader /\ c.fileIV = Zero64 THEN initHeader(c, f, rnd)
                  ELSE [c |-> c, res |-> 0]} })

(***************************************************************************)
(* The block chunker (BlockFileIO): range reads, the writes it passes to   *)
(* writeOneBlock, and the logical truncate.  It always asks readOneBlock   *)
(* for a full block and hands out what the caller asked for.               *)
(***************************************************************************)
PadTo(buf, n) == [i \in 1..n |-> IF i <= Len(buf) THEN buf[i] ELSE 0]

cacheReadOneBlock(c, f, rnd, offset, dataLen) ==
  The({
    IF r.res > 0
    THEN [c |-> r.c, res |-> Min(r.res, dataLen),
          buf |-> SubSeq(r.buf, 1, Min(r.res, dataLen))]
    ELSE [c |-> r.c, res |-> r.res, buf |-> <<>>]
    : r \in {readOneBlock(c, f, rnd, offset, blockSize)} })

RECURSIVE ReadLoop(_, _, _, _, _, _, _)
ReadLoop(c, f, rnd, blockNum, partialOffset, size, out) ==
  IF size = 0 THEN [c |-> c, res |-> Len(out), buf |-> out]
  ELSE The({
         IF r.c.threw \/ r.res < 0 THEN [c |-> r.c, res |-> r.res, buf |-> out]
         ELSE IF r.res <= partialOffset THEN [c |-> r.c, res |-> Len(out), buf |-> out]
         ELSE The({
                IF r.res < blockSize THEN [c |-> r.c, res |-> Len(out1), buf |-> out1]
                ELSE ReadLoop(r.c, f, rnd, blockNum + 1, 0, size - (Len(out1) - Len(out)), out1)
                : out1 \in {out \o SubSeq(r.buf, partialOffset + 1,
                                          partialOffset + Min(r.res - partialOffset, size))} })
         : r \in {cacheReadOneBlock(c, f, rnd, blockNum * blockSize, blockSize)} })

BlockFileIO_read(c, f, rnd, offset, dataLen) ==
  IF offset % blockSize = 0 /\ dataLen <= blockSize
  THEN cacheReadOneBlock(c, f, rnd, offset, dataLen)
  ELSE ReadLoop(c, f, rnd, offset \div blockSize, offset % blockSize, dataLen, <<>>)

\* the requests BlockFileIO::write hands to writeOneBlock as they are: a
\* full block, or a partial block at the end of the file that covers what
\* the file holds of that block
PassedAsIs(fileSize, offset, dataLen) ==
  /\ offset % blockSize = 0
  /\ offset <= fileSize
  /\ \/ dataLen = blockSize
     \/ /\ dataLen < blockSize
        /\ offset \div blockSize = fileSize \div blockSize
        /\ dataLen >= fileSize % blockSize

BlockFileIO_write(c, f, rnd, offset, buf) ==
  IF getSize(c).threw THEN [c |-> Throw(c), res |-> 0]
  ELSE writeOneBlock(c, f, rnd, offset, buf)

\* read the block at offset (dataLen bytes of it) into a zeroed buffer and
\* write it back with outLen bytes
Rewrite(c, f, rnd, offset, dataLen, outLen) ==
  The({
    IF r.c.threw \/ r.res < 0 THEN [c |-> r.c, res |-> r.res]
    ELSE writeOneBlock(r.c, f, rnd, offset, PadTo(r.buf, outLen))
    : r \in {IF dataLen > 0 THEN cacheReadOneBlock(c, f, rnd, offset, dataLen)
             ELSE [c |-> c, res |-> 0, buf |-> <<>>]} })

RECURSIVE ZeroBlocks(_, _, _, _, _)
ZeroBlocks(c, f, rnd, blockNum, lastBlock) ==
  IF blockNum >= lastBlock THEN [c |-> c, res |-> 0]
  ELSE The({
         IF w.c.threw \/ w.res < 0 THEN w
         ELSE ZeroBlocks(w.c, f, rnd, blockNum + 1, lastBlock)
         : w \in {writeOneBlock(c, f, rnd, blockNum * blockSize, Zeros(blockSize))} })

\* padFile(oldSize, newSize, forceWrite = true)
padFile(c, f, rnd, oldSize, newSize) ==
  IF oldSize \div blockSize = newSize \div blockSize
  THEN IF newSize % blockSize # 0
       THEN Rewrite(c, f, rnd, (oldSize \div blockSize) * blockSize, oldSize % blockSize,
                    newSize % blockSize)
       ELSE [c |-> c, res |-> 0]
  ELSE The({
         The({
           IF s2.c.threw \/ s2.res < 0 THEN s2
           ELSE IF newSize % blockSize # 0
           THEN writeOneBlock(s2.c, f, rnd, (newSize \div blockSize) * blockSize,
                              Zeros(newSize % blockSize))
           ELSE s2
           : s2 \in {IF s1.c.threw \/ s1.res < 0 \/ allowHoles THEN s1
                     ELSE ZeroBlocks(s1.c, f, rnd,
                                     IF oldSize % blockSize # 0
                                     THEN (oldSize \div blockSize) + 1
                                     ELSE oldSize \div blockSize,
                                     newSize \div blockSize)} })
         : s1 \in {IF oldSize % blockSize # 0
                   THEN Rewrite(c, f, rnd, (oldSize \div blockSize) * blockSize,
                                oldSize % blockSize, blockSize)
                   ELSE [c |-> c, res |-> 0]} })

Status(r) == [c |-> r.c, res |-> IF r.res < 0 THEN r.res ELSE 0]

\* BlockFileIO::truncateBase(size, base); toBase says whether base is given
BlockFileIO_truncateBase(c, f, rnd, size, toBase) ==
  IF getSize(c).threw THEN [c |-> Throw(c), res |-> 0]
  ELSE IF size > getSize(c).size
  THEN The({
         IF t.res # 0 THEN t
         ELSE The({ Status(p) : p \in {padFile(t.c, f, rnd, getSize(c).size, size)} })
         : t \in {IF toBase THEN baseTruncate(c, f, "baseTruncate", size)
                  ELSE [c |-> c, res |-> 0]} })
  ELSE IF size = getSize(c).size THEN [c |-> c, res |-> 0]
  ELSE IF size % blockSize # 0
  THEN The({
         The({
           IF t.c.threw \/ t.res # 0 THEN t
           ELSE The({ Status(w)
                      : w \in {writeOneBlock(t.c, f, rnd, (size \div blockSize) * blockSize,
                                             PadTo(r.buf, size % blockSize))} })
           : t \in {IF r.c.threw \/ r.res < 0 THEN [c |-> r.c, res |-> r.res]
                    ELSE IF toBase THEN baseTruncate(r.c, f, "baseTruncate", size)
                    ELSE [c |-> r.c, res |-> 0]} })
         : r \in {cacheReadOneBlock(c, f, rnd, (size \div blockSize) * blockSize,
                                    blockSize)} })
  ELSE IF toBase THEN baseTruncate(c, f, "baseTruncate", size)
  ELSE [c |-> c, res |-> 0]

(***************************************************************************)
(* Truncate.                                                               *)
(***************************************************************************)
\* the part of truncate between the reopen and the restore of the flags
truncateSteps(c, f, rnd, size) ==
  IF ~haveHeader THEN BlockFileIO_truncateBase(c, f, rnd, size, TRUE)
  ELSE The({
         The({
           IF t.c.threw \/ t.res # 0 THEN t
           ELSE baseTruncate(t.c, f, "baseTruncate", size + HEADER_SIZE)
           : t \in {IF h.c.threw \/ h.res # 0 THEN h
                    ELSE BlockFileIO_truncateBase(h.c, f, rnd, size, FALSE)} })
         : h \in {IF c.fileIV = Zero64 THEN initHeader(c, f, rnd)
                  ELSE [c |-> c, res |-> 0]} })

\* A truncate that leaves the backing file open read-write after its
\* temporary reopen: its last open no longer uses lastFlags (C13).
truncateRestoreKeepsRDWR(c, f, res) ==
  The({ [c |-> o.c, res |-> IF res < 0 THEN o.res ELSE res]
        : o \in {baseOpen(c, f, "restore", OrRDWR(c.lastFlags))} })

\* if (reopen == 1) { reopen = base->open(lastFlags); if (res < 0) res = reopen; }
truncateRestore(c, f, res) ==
  The({ [c |-> o.c, res |-> IF res < 0 THEN o.res ELSE res]
        : o \in {baseOpen(c, f, "restore", c.lastFlags)} })

\* step is what the steps between the reopen and the restore ended with
truncate(c, f, rnd, size) ==
  IF ~baseIsWritable(c)
  THEN The({
         IF o.res < 0
         THEN [c |-> baseOpen(o.c, f, "restore", c.lastFlags).c, res |-> o.res, step |-> 0]
         ELSE The({
                IF t.c.threw THEN [c |-> t.c, res |-> t.res, step |-> t.res]
                ELSE The({ [c |-> x.c, res |-> x.res, step |-> t.res]
                           : x \in {truncateRestore(t.c, f, t.res)} })
                : t \in {truncateSteps(o.c, f, rnd, size)} })
         : o \in {baseOpen(c, f, "open", OrRDWR(c.lastFlags))} })
  ELSE The({ [c |-> t.c, res |-> t.res, step |-> t.res]
             : t \in {truncateSteps(c, f, rnd, size)} })

(***************************************************************************)
(* The reverse-mode virtual header and the read path.                      *)
(***************************************************************************)
\* the first HEADER_SIZE bytes of SHA1(inode number): a fixed non-zero
\* value per inode, its bytes all different
SHA1Head(ino) == [i \in 1..HEADER_SIZE |-> ((ino * 16) + (i * 3)) % 256]

generateReverseHeader(c, f) ==
  IF Fails(f, "getAttr") \/ c.ino = 0
  THEN [c |-> Throw(Log(c, "getAttr", "getAttr", 0, 0)), res |-> 0, buf |-> <<>>]
  ELSE The({ [c |-> e.c, res |-> IF e.ok THEN 0 ELSE 0 - EBADMSG, buf |-> e.buf]
             : e \in {streamEncode([Log(c, "getAttr", "getAttr", 0, 0)
                                      EXCEPT !.fileIV = ReadIVLoop(0, Zero64, SHA1Head(c.ino))],
                                   f, "hdrEncode", SHA1Head(c.ino), U64(c.externalIV))} })

\* headerBytes = -req.offset, or req.dataLen if that is less
HeaderBytesOf(offset, dataLen) ==
  IF offset - HEADER_SIZE < 0
  THEN (IF dataLen < HEADER_SIZE - offset THEN dataLen ELSE HEADER_SIZE - offset)
  ELSE 0

\* memcpy(req.data, &headerBuf[headerOffset], headerBytes), with
\* headerOffset = HEADER_SIZE - headerBytes
HeaderPart(headerBuf, headerBytes) ==
  SubSeq(headerBuf, (HEADER_SIZE - headerBytes) + 1, HEADER_SIZE)

read(c, f, rnd, offset, dataLen) ==
  IF ~(reverseEncryption /\ haveHeader) THEN BlockFileIO_read(c, f, rnd, offset, dataLen)
  ELSE The({
         IF g.c.threw \/ g.res < 0 THEN [c |-> g.c, res |-> g.res, buf |-> <<>>]
         ELSE The({
                IF offset < HEADER_SIZE /\ headerBytes = dataLen
                THEN [c |-> g.c, res |-> headerBytes, buf |-> HeaderPart(g.buf, headerBytes)]
                ELSE The({
                       IF r.c.threw \/ r.res < 0
                       THEN [c |-> r.c, res |-> r.res, buf |-> HeaderPart(g.buf, headerBytes)]
                       ELSE [c |-> r.c, res |-> headerBytes + r.res,
                             buf |-> HeaderPart(g.buf, headerBytes) \o r.buf]
                       : r \in {BlockFileIO_read(g.c, f, rnd,
                                                 (offset - HEADER_SIZE) + headerBytes,
                                                 dataLen - headerBytes)} })
                : headerBytes \in {HeaderBytesOf(offset, dataLen)} })
         : g \in {generateReverseHeader(c, f)} })

open(c, f, flags) ==
  The({ [c |-> IF o.res >= 0 THEN [o.c EXCEPT !.lastFlags = flags] ELSE o.c, res |-> o.res]
        : o \in {baseOpen(c, f, "open", flags)} })

(***************************************************************************)
(* The state machine: one instance over one backing file.                  *)
(***************************************************************************)
\* the filesystem's block size with the cipher's block size
BlockConfigs == {<<4, 2>>}

IVChoices == {0, 1, 2}

FlagChoices == {0, O_RDWR}

\* what randomize() produces on successive calls
RandChoices == {<< <<1, 0, 0, 0, 0, 0, 0, 5>> >>,
                << Zero64, <<1, 0, 0, 0, 0, 0, 0, 5>> >>}

IOErrors == {0 - 5}

NoFault == [site |-> "none", err |-> 0 - 5]

FaultsAt(sites) ==
  {NoFault} \cup {[site |-> s, err |-> e] : s \in sites, e \in IOErrors}

\* plaintext handed to a write: k bytes of one of these
Patterns == IF allowHoles THEN {<<65, 66, 67, 68>>, <<0, 0, 0, 0>>} ELSE {<<65, 66, 67, 68>>}

\* the filesystem's block sizes the size translation is tried with
SizeConfigs == {<<4, 2>>, <<8, 4>>, <<16, 16>>}

\* plaintext files a reverse mount is pointed at
PlainFiles == {<<>>, <<65, 66, 67>>, <<65, 66, 67, 68, 69, 70, 71, 72, 73, 74>>}

Ctx ==
  [externalIV |-> externalIV, fileIV |-> fileIV, lastFlags |-> lastFlags,
   data |-> base.data, openFlags |-> base.openFlags, ino |-> base.ino,
   isDir |-> base.isDir, calls |-> <<>>, threw |-> FALSE]

NoWrite == [valid |-> FALSE]

\* the call's effect on the instance and the backing file, and its record
Commit(c, f, op, a, b, res, buf, w) ==
  /\ externalIV' = c.externalIV
  /\ fileIV' = c.fileIV
  /\ lastFlags' = c.lastFlags
  /\ base' = [data |-> c.data, openFlags |-> c.openFlags, ino |-> c.ino,
               isDir |-> c.isDir]
  /\ last' = [op |-> op, a |-> a, b |-> b, res |-> res, threw |-> c.threw,
              calls |-> c.calls, buf |-> buf, fault |-> f.site,
              preExternalIV |-> externalIV, preFileIV |-> fileIV]
  /\ wrote' = w
  /\ faults' = IF f = NoFault THEN faults ELSE faults + 1
  /\ UNCHANGED <<cfgvars, sz>>

InitCfg(R, H, P, A) ==
  /\ reverseEncryption \in R
  /\ haveHeader \in H
  /\ haveCBCPadding \in P
  /\ allowHoles \in A
  /\ \E bc \in BlockConfigs : cfgBlockSize = bc[1] /\ cipherBlockSize = bc[2]
  /\ externalIV = 0
  /\ fileIV = Zero64
  /\ lastFlags = 0
  /\ \E d \in (IF reverseEncryption THEN PlainFiles ELSE {<<>>}), dir \in BOOLEAN :
        /\ dir => d = <<>>
        /\ base = [data |-> d, openFlags |-> 0, ino |-> 1, isDir |-> dir]
  /\ last = [op |-> "new", a |-> 0, b |-> 0, res |-> 0, threw |-> FALSE,
             calls |-> <<>>, buf |-> <<>>, fault |-> "none",
             preExternalIV |-> 0, preFileIV |-> Zero64]
  /\ wrote = NoWrite
  /\ faults = 0
  /\ sz = [phase |-> "off"]

\* randomize() is reached only when a header is created
RandFor(c) ==
  IF haveHeader /\ c.fileIV = Zero64 /\ Len(c.data) < HEADER_SIZE THEN RandChoices
  ELSE {<< <<1, 0, 0, 0, 0, 0, 0, 5>> >>}

\* The faults to inject into a call whose run without fault is r0: none, or
\* a failure at a site that run reaches (up to the first failure the two
\* runs are the same).
FaultsFor(r0) ==
  IF faults >= MaxFaults THEN {NoFault}
  ELSE FaultsAt({r0.c.calls[i].site : i \in 1..Len(r0.c.calls)})

Open ==
  \E flags \in FlagChoices :
     \E r0 \in {open(Ctx, NoFault, flags)} :
        \E f \in FaultsFor(r0) :
           \E r \in {IF f = NoFault THEN r0 ELSE open(Ctx, f, flags)} :
              Commit(r.c, f, "open", flags, 0, r.res, <<>>, wrote)

\* The filesystem chains external IVs or it does not: once it has passed a
\* non-zero IV it passes no zero one.
SetIVOf(IVs) ==
  \E iv \in IVs, rnd \in RandFor(Ctx) :
     /\ iv # 0 \/ externalIV = 0
     /\ \E r0 \in {setIV(Ctx, NoFault, rnd, iv)} :
           \E f \in FaultsFor(r0) :
              \E r \in {IF f = NoFault THEN r0 ELSE setIV(Ctx, f, rnd, iv)} :
                 Commit(r.c, f, "setIV", iv, 0, IF r.ok THEN 1 ELSE 0, <<>>, wrote)

\* a write of the first n bytes of a pattern at block k, for k in K, n in N
WriteOf(K, N) ==
  \E k \in K, n \in N, p \in Patterns, rnd \in RandFor(Ctx) :
     /\ ~base.isDir
     /\ n <= blockSize
     /\ getSize(Ctx).threw \/ PassedAsIs(getSize(Ctx).size, k * blockSize, n)
     /\ \E buf \in {SubSeq(p, 1, n)} :
           \E r0 \in {BlockFileIO_write(Ctx, NoFault, rnd, k * blockSize, buf)} :
              \E f \in FaultsFor(r0) :
                 \E r \in {IF f = NoFault THEN r0
                           ELSE BlockFileIO_write(Ctx, f, rnd, k * blockSize, buf)} :
                    Commit(r.c, f, "write", k, n, r.res, buf,
                           IF ~r.c.threw /\ r.res >= 0
                           THEN [valid |-> TRUE, k |-> k, buf |-> buf,
                                 externalIV |-> r.c.externalIV, fileIV |-> r.c.fileIV]
                           ELSE NoWrite)

\* a read of the request q = <<offset, length>>, for q in Q
ReadOf(Q) ==
  \E q \in Q, rnd \in RandFor(Ctx) :
     /\ ~base.isDir
     /\ \E r0 \in {read(Ctx, NoFault, rnd, q[1], q[2])} :
           \E f \in FaultsFor(r0) :
              \E r \in {IF f = NoFault THEN r0 ELSE read(Ctx, f, rnd, q[1], q[2])} :
                 Commit(r.c, f, "read", q[1], q[2], r.res,
                        IF ~r.c.threw /\ r.res > 0 THEN SubSeq(r.buf, 1, r.res) ELSE <<>>,
                        wrote)

\* a truncate to one of the sizes S
TruncateOf(S) ==
  \E size \in S, rnd \in RandFor(Ctx) :
     /\ ~base.isDir
     /\ \E r0 \in {truncate(Ctx, NoFault, rnd, size)} :
           \E f \in FaultsFor(r0) :
              \E r \in {IF f = NoFault THEN r0 ELSE truncate(Ctx, f, rnd, size)} :
                 Commit(r.c, f, "truncate", size, r.step, r.res, <<>>, NoWrite)

\* the 8 bytes a header holding iv is stored as under the external IV eiv
HeaderBytes(iv, eiv) == Shift(iv, StreamKey(U64(eiv)))

KnownIVs == {RandomLoop(rnd, 1).fileIV : rnd \in RandChoices}

\* the backing file is one this filter stores under the external IV eiv:
\* no header yet, or the header of a file IV that randomize produced
StoredUnder(data, eiv) ==
  IF Len(data) < HEADER_SIZE THEN TRUE
  ELSE \E iv \in KnownIVs : SubSeq(data, 1, HEADER_SIZE) = HeaderBytes(iv, eiv)

\* The instance is released and a new one is made for the same file.  The
\* filesystem derives the external IV from the file's path, so the new
\* instance is told (by its first setIV) the IV the old one held.
NewInstance ==
  /\ ~reverseEncryption /\ haveHeader /\ ~base.isDir
  /\ StoredUnder(base.data, externalIV)
  /\ fileIV # Zero64
  /\ externalIV' = externalIV
  /\ fileIV' = Zero64
  /\ lastFlags' = 0
  /\ base' = [base EXCEPT !.openFlags = 0]
  /\ last' = [op |-> "new", a |-> 0, b |-> 0, res |-> 0, threw |-> FALSE,
              calls |-> <<>>, buf |-> <<>>, fault |-> "none",
              preExternalIV |-> externalIV, preFileIV |-> fileIV]
  /\ wrote' = wrote
  /\ UNCHANGED <<cfgvars, sz, faults>>

(***************************************************************************)
(* Spec: the life of a header-bearing file, in both directions and with    *)
(* and without padding.  Requests address the first block.                 *)
(***************************************************************************)
SetIV == SetIVOf(IVChoices)

Write == WriteOf({0}, {2, blockSize})

Read == ReadOf({<<0, blockSize>>, <<0, HEADER_SIZE + 2>>})

Truncate == TruncateOf({0, 2, blockSize})

Next == Open \/ SetIV \/ Write \/ Read \/ Truncate

Init == InitCfg(BOOLEAN, {TRUE}, BOOLEAN, {FALSE})

Spec == Init /\ [][Next]_vars

(***************************************************************************)
(* RWSpec: blocks written and read back in normal mode without padding,    *)
(* with and without a header, by the instance that wrote them or by a new  *)
(* one.                                                                    *)
(***************************************************************************)
WriteBlock == WriteOf(0..MaxBlock, 1..blockSize)

ReadBlock == ReadOf({<<k * blockSize, blockSize>> : k \in 0..MaxBlock})

RWInit == InitCfg({FALSE}, BOOLEAN, {FALSE}, {FALSE})

\* the external IV of a file that stays where it is: none, or one value
Chain == SetIVOf({0, 1})

RWNext == Open \/ Chain \/ WriteBlock \/ ReadBlock \/ NewInstance

RWSpec == RWInit /\ [][RWNext]_vars

(***************************************************************************)
(* RevSpec: reads of the virtual file of a reverse mount with headers.     *)
(***************************************************************************)
ReadAt == ReadOf({<<x, n>> : x \in 0..MaxReadOffset, n \in 1..MaxReadLen})

RevInit == InitCfg({TRUE}, {TRUE}, {FALSE}, {FALSE})

RevNext == Chain \/ ReadAt

RevSpec == RevInit /\ [][RevNext]_vars

(***************************************************************************)
(* SizeSpec: getSize's translation applied to a plaintext size in reverse  *)
(* mode, to the result in normal mode, and to that result in reverse mode  *)
(* again, under one padded configuration.                                  *)
(***************************************************************************)
SizeInit ==
  /\ reverseEncryption = FALSE
  /\ haveHeader \in BOOLEAN
  /\ haveCBCPadding = TRUE
  /\ allowHoles = FALSE
  /\ \E bc \in SizeConfigs : cfgBlockSize = bc[1] /\ cipherBlockSize = bc[2]
  /\ externalIV = 0
  /\ fileIV = Zero64
  /\ lastFlags = 0
  /\ base = [data |-> <<>>, openFlags |-> 0, ino |-> 1, isDir |-> FALSE]
  /\ last = [op |-> "new", a |-> 0, b |-> 0, res |-> 0, threw |-> FALSE,
             calls |-> <<>>, buf |-> <<>>, fault |-> "none",
             preExternalIV |-> 0, preFileIV |-> Zero64]
  /\ wrote = NoWrite
  /\ faults = 0
  /\ \E p \in 1..MaxPlainSize :
        sz = [phase |-> "plain", p |-> p, n |-> 0, q |-> 0, m |-> 0, threw |-> FALSE]

\* getSize() of a reverse mount over a plaintext file of sz.p bytes
Grow ==
  /\ sz.phase = "plain"
  /\ sz' = [sz EXCEPT !.phase = "grown", !.n = getSizeOf(TRUE, sz.p).size]
  /\ UNCHANGED <<cfgvars, externalIV, fileIV, lastFlags, base, last, wrote, faults>>

\* getSize() of a normal mount over a backing file of sz.n bytes
Shrink ==
  /\ sz.phase = "grown"
  /\ sz' = [sz EXCEPT !.phase = "shrunk", !.q = getSizeOf(FALSE, sz.n).size,
                      !.threw = getSizeOf(FALSE, sz.n).threw]
  /\ UNCHANGED <<cfgvars, externalIV, fileIV, lastFlags, base, last, wrote, faults>>

\* getSize() of a reverse mount over a plaintext file of sz.q bytes
Regrow ==
  /\ sz.phase = "shrunk"
  /\ sz' = [sz EXCEPT !.phase = "regrown", !.m = getSizeOf(TRUE, sz.q).size]
  /\ UNCHANGED <<cfgvars, externalIV, fileIV, lastFlags, base, last, wrote, faults>>

SizeNext == Grow \/ Shrink \/ Regrow

SizeSpec == SizeInit /\ [][SizeNext]_vars

(***************************************************************************)
(* HdrSpec: writeHeader applied to a file IV under an external IV, then    *)
(* initHeader applied to the file it leaves.                               *)
(***************************************************************************)
\* the bytes file IVs are made of
HdrBytes == {0, 1, 255}

HdrValues == {v \in [1..8 -> HdrBytes] : v # Zero64}

HdrInit ==
  /\ reverseEncryption = FALSE
  /\ haveHeader = TRUE
  /\ haveCBCPadding = FALSE
  /\ allowHoles = FALSE
  /\ \E bc \in BlockConfigs : cfgBlockSize = bc[1] /\ cipherBlockSize = bc[2]
  /\ externalIV \in IVChoices
  /\ fileIV \in HdrValues
  /\ lastFlags = O_RDWR
  /\ base = [data |-> <<>>, openFlags |-> O_RDWR, ino |-> 1, isDir |-> FALSE]
  /\ last = [op |-> "new", a |-> 0, b |-> 0, res |-> 0, threw |-> FALSE,
             calls |-> <<>>, buf |-> <<>>, fault |-> "none",
             preExternalIV |-> 0, preFileIV |-> Zero64]
  /\ wrote = NoWrite
  /\ faults = 0
  /\ sz = [phase |-> "off"]

\* writeHeader() with the instance's file IV; wrote keeps the value written
WriteHeader ==
  /\ last.op = "new"
  /\ \E r0 \in {writeHeader(Ctx, NoFault)} :
        \E f \in FaultsFor(r0) :
           \E r \in {IF f = NoFault THEN r0 ELSE writeHeader(Ctx, f)} :
              Commit(r.c, f, "writeHeader", 0, 0, IF r.ok THEN 1 ELSE 0, <<>>,
                     IF r.ok
                     THEN [valid |-> TRUE, k |-> 0, buf |-> <<>>,
                           externalIV |-> externalIV, fileIV |-> fileIV]
                     ELSE NoWrite)

\* initHeader() on the file a successful writeHeader left
InitHeader ==
  /\ last.op = "writeHeader" /\ wrote.valid
  /\ \E rnd \in RandFor(Ctx) :
        \E r0 \in {initHeader(Ctx, NoFault, rnd)} :
           \E f \in FaultsFor(r0) :
              \E r \in {IF f = NoFault THEN r0 ELSE initHeader(Ctx, f, rnd)} :
                 Commit(r.c, f, "initHeader", 0, 0, r.res, <<>>, wrote)

HdrNext == WriteHeader \/ InitHeader

HdrSpec == HdrInit /\ [][HdrNext]_vars

(***************************************************************************)
(* BlkSpec: readOneBlock in normal mode over backing files that hold       *)
(* well-formed, malformed and sparse blocks, with and without padding,     *)
(* header and hole support.                                                *)
(***************************************************************************)
\* the file IV the blocks of the backing file are stored under
BlkFileIV == IF haveHeader THEN <<1, 0, 0, 0, 0, 0, 0, 5>> ELSE Zero64

\* what the blocks of a backing file decode to: data with the 0x80 marker
\* and zeros after it, data without a marker, a marker without data, zeros
BlockShapes ==
  {<<65, 66, 67, 128>>, <<65, 128, 0, 0>>, <<65, 66, 67, 68>>, <<0, 0, 0, 0>>,
   <<128, 0, 0, 0>>, <<65, 128>>, <<65, 66>>, <<65, 66, 128>>, <<0, 0>>}

\* the lengths of the holes (runs of zero bytes never written) a file ends with
HoleLens == {2, 3, 4}

\* a block as stored: in block mode when padded or full, else in stream mode
RawBlock(k, shape) ==
  Shift(shape, IF haveCBCPadding \/ Len(shape) = cfgBlockSize
               THEN BlockKey(Xor64(k, BlkFileIV))
               ELSE StreamKey(Xor64(k, BlkFileIV)))

\* the last block of a file, at block number k
LastBlocks(k) == {RawBlock(k, s) : s \in BlockShapes} \cup {Zeros(n) : n \in HoleLens}

\* backing files of one or two blocks, behind the header when there is one
BlkFiles ==
  {(IF haveHeader THEN HeaderBytes(BlkFileIV, 0) ELSE <<>>) \o b : b \in LastBlocks(0)}
  \cup
  {(IF haveHeader THEN HeaderBytes(BlkFileIV, 0) ELSE <<>>) \o a \o b :
     a \in {RawBlock(0, <<65, 66, 67, 128>>), Zeros(cfgBlockSize)}, b \in LastBlocks(1)}

BlkInit ==
  /\ reverseEncryption = FALSE
  /\ haveHeader \in BOOLEAN
  /\ haveCBCPadding \in BOOLEAN
  /\ allowHoles \in BOOLEAN
  /\ \E bc \in BlockConfigs : cfgBlockSize = bc[1] /\ cipherBlockSize = bc[2]
  /\ externalIV = 0
  /\ fileIV = Zero64
  /\ lastFlags = 0
  /\ \E d \in BlkFiles : base = [data |-> d, openFlags |-> 0, ino |-> 1, isDir |-> FALSE]
  /\ last = [op |-> "new", a |-> 0, b |-> 0, res |-> 0, threw |-> FALSE,
             calls |-> <<>>, buf |-> <<>>, fault |-> "none",
             preExternalIV |-> 0, preFileIV |-> Zero64]
  /\ wrote = NoWrite
  /\ faults = 0
  /\ sz = [phase |-> "off"]

\* readOneBlock for n bytes of block k; last.buf is the buffer it leaves
ReadOneBlock ==
  \E k \in 0..MaxBlock, n \in 1..blockSize, rnd \in RandFor(Ctx) :
     \E r0 \in {readOneBlock(Ctx, NoFault, rnd, k * blockSize, n)} :
        \E f \in FaultsFor(r0) :
           \E r \in {IF f = NoFault THEN r0
                     ELSE readOneBlock(Ctx, f, rnd, k * blockSize, n)} :
              Commit(r.c, f, "readOneBlock", k, n, r.res, r.buf, wrote)

BlkNext == ReadOneBlock

BlkSpec == BlkInit /\ [][BlkNext]_vars

(***************************************************************************)
(* AttrSpec: getAttr and getSize applied to one backing entry, a regular   *)
(* file or a directory, of one raw size, in every configuration.           *)
(***************************************************************************)
\* what base->getAttr returns
StatResults == {0, 0 - 5}

AttrInit ==
  /\ reverseEncryption \in BOOLEAN
  /\ haveHeader \in BOOLEAN
  /\ haveCBCPadding \in BOOLEAN
  /\ allowHoles = FALSE
  /\ \E bc \in SizeConfigs : cfgBlockSize = bc[1] /\ cipherBlockSize = bc[2]
  /\ externalIV = 0
  /\ fileIV = Zero64
  /\ lastFlags = 0
  /\ \E dir \in BOOLEAN : base = [data |-> <<>>, openFlags |-> 0, ino |-> 1, isDir |-> dir]
  /\ last = [op |-> "new", a |-> 0, b |-> 0, res |-> 0, threw |-> FALSE,
             calls |-> <<>>, buf |-> <<>>, fault |-> "none",
             preExternalIV |-> 0, preFileIV |-> Zero64]
  /\ wrote = NoWrite
  /\ faults = 0
  /\ \E raw \in 0..MaxRawSize, res \in StatResults :
        sz = [phase |-> "raw", raw |-> raw, res |-> res,
              attr |-> [threw |-> FALSE, size |-> raw],
              size |-> [threw |-> FALSE, size |-> raw]]

\* getAttr(&stbuf) on the entry
GetAttr ==
  /\ sz.phase = "raw"
  /\ sz' = [sz EXCEPT !.phase = "attr",
                      !.attr = getAttrOf(reverseEncryption, sz.res, ~base.isDir, sz.raw)]
  /\ UNCHANGED <<cfgvars, externalIV, fileIV, lastFlags, base, last, wrote, faults>>

\* getSize() on the entry, which callers use for regular files only
GetSize ==
  /\ sz.phase = "attr" /\ sz.res = 0 /\ ~base.isDir
  /\ sz' = [sz EXCEPT !.phase = "both", !.size = getSizeOf(reverseEncryption, sz.raw)]
  /\ UNCHANGED <<cfgvars, externalIV, fileIV, lastFlags, base, last, wrote, faults>>

AttrNext == GetAttr \/ GetSize

AttrSpec == AttrInit /\ [][AttrNext]_vars

(***************************************************************************)
(* The claims.                                                             *)
(***************************************************************************)
\* the sites of the calls the last operation made
SitesOf(calls) == {calls[i].site : i \in 1..Len(calls)}

\* C1: once fileIV is non-zero on a header-enabled instance, every later
\* read, write, truncate and setIV, failed or not, leaves it at that same
\* non-zero value.
C1_FileIVKept ==
  (haveHeader /\ last.op \in {"read", "write", "truncate", "setIV"}
     /\ last.preFileIV # Zero64)
  => fileIV = last.preFileIV

\* C2: when setIV returns false, externalIV is what it was before the call,
\* whichever step of setIV failed.
C2_ExternalIVRestored ==
  (last.op = "setIV" /\ last.res = 0 /\ ~last.threw)
  => externalIV = last.preExternalIV

\* C3: in reverse mode with headers no call (read, write, truncate, setIV)
\* makes initHeader or writeHeader write to the backing file.
C3_NoHeaderWriteInReverse ==
  (reverseEncryption /\ haveHeader) => "hdrWrite" \notin SitesOf(last.calls)

\* C4: when a step of truncate (header establishment, the chunker's
\* truncate, the backing truncate) ends with an error, truncate returns that
\* error, with or without a temporary read-write reopen.
C4_TruncateReturnsStepError ==
  (last.op = "truncate" /\ ~last.threw /\ last.b < 0) => last.res = last.b

\* C5: in normal mode with padding, a block of L bytes (1 <= L <= block
\* size) written at block k reads back as exactly those L bytes.
C5_PaddedRoundTrip ==
  (~reverseEncryption /\ haveCBCPadding /\ wrote.valid
     /\ last.op = "read" /\ last.fault = "none" /\ ~last.threw
     /\ last.a = wrote.k * blockSize /\ last.b = blockSize
     /\ externalIV = wrote.externalIV /\ fileIV = wrote.fileIV)
  => (last.res = Len(wrote.buf) /\ last.buf = wrote.buf)

\* C6: in normal mode without padding, with or without a header, a block of
\* L bytes (1 <= L <= block size) written at block k and read under the same
\* file IV, by the same instance or by a new one that loaded the IV from the
\* header, is fetched from the offset it was stored at (k * blockSize, plus 8
\* with a header), decoded in the mode it was encoded in (block mode iff
\* L = blockSize) and returned as the L bytes written.
C6_RoundTrip ==
  (~reverseEncryption /\ ~haveCBCPadding /\ wrote.valid
     /\ last.op = "read" /\ last.fault = "none" /\ ~last.threw
     /\ last.a = wrote.k * blockSize /\ last.b = blockSize
     /\ externalIV = wrote.externalIV /\ fileIV = wrote.fileIV)
  => /\ last.res = Len(wrote.buf)
     /\ last.buf = wrote.buf
     /\ last.calls[1] = Call("read", "read", WriteOffset(wrote.k * blockSize), blockSize)
     /\ last.calls[Len(last.calls)] =
          Call(IF Len(wrote.buf) = blockSize THEN "blockDecode" ELSE "streamDecode",
               "cipher", 0, Len(wrote.buf))

\* C6's case: a full second block read back by a new instance, which loads
\* the file IV from the header during the read.
C6_FreshInstanceRead ==
  /\ ~reverseEncryption /\ ~haveCBCPadding /\ haveHeader
  /\ wrote.valid /\ wrote.k = MaxBlock /\ Len(wrote.buf) = blockSize
  /\ last.op = "read" /\ last.a = wrote.k * blockSize
  /\ externalIV = 0 /\ last.preFileIV = Zero64 /\ fileIV = wrote.fileIV
  /\ "hdrRead" \in SitesOf(last.calls)
  /\ last.buf = wrote.buf

\* what a read of n bytes at offset x of the virtual file is to return: the
\* header bytes x .. x+k-1, k = min(8 - x, n), then the payload from offset 0
VirtualRead(x, n) ==
  The({ [res |-> Min(HEADER_SIZE - x, n) + p.res,
         buf |-> SubSeq(Shift(SHA1Head(base.ino), StreamKey(U64(externalIV))),
                        x + 1, x + Min(HEADER_SIZE - x, n))
                 \o SubSeq(p.buf, 1, p.res)]
        : p \in {IF n > HEADER_SIZE - x
                 THEN BlockFileIO_read(Ctx, NoFault, << Zero64 >>, 0, n - (HEADER_SIZE - x))
                 ELSE [res |-> 0, buf |-> <<>>]} })

\* C7: in reverse mode with headers, a read of n bytes at an offset X < 8
\* returns the header bytes X .. X+k-1 (k = min(8 - X, n)) followed by the
\* payload from backing offset 0, and the count k plus the payload count.
C7_VirtualHeaderRead ==
  (reverseEncryption /\ haveHeader /\ last.op = "read" /\ last.a < HEADER_SIZE
     /\ last.fault = "none" /\ ~last.threw /\ last.res >= 0)
  => (last.res = VirtualRead(last.a, last.b).res
      /\ last.buf = VirtualRead(last.a, last.b).buf)

\* C8: a truncate(N) of a header-bearing normal-mode file whose steps all
\* succeed leaves the header bytes as they were and makes getSize() return
\* N, in every padding mode.
C8_TruncateSize ==
  [][(~reverseEncryption /\ haveHeader /\ last'.op = "truncate"
        /\ last'.res = 0 /\ last'.b = 0 /\ last'.fault = "none" /\ ~last'.threw)
     => (/\ getSizeOf(FALSE, Len(base'.data)) = [threw |-> FALSE, size |-> last'.a]
         /\ Len(base.data) >= HEADER_SIZE
              => SubSeq(base'.data, 1, HEADER_SIZE) = SubSeq(base.data, 1, HEADER_SIZE))]_vars

\* C9: with padding, the growth getSize applies in reverse mode and the
\* shrinkage it applies in normal mode are inverse: shrink(grow(p)) = p for
\* every plaintext size p > 0, and grow(shrink(n)) = n for every n = grow(p).
C9_SizeRoundTrip ==
  /\ sz.phase \in {"shrunk", "regrown"} => (~sz.threw /\ sz.q = sz.p)
  /\ sz.phase = "regrown" => sz.m = sz.n

\* C9's case: a file of several blocks, with a header, taken through both
\* translations and back.
C9_MultiBlockRegrown ==
  /\ sz.phase = "regrown" /\ haveHeader
  /\ sz.p > 2 * cfgBlockSize
  /\ sz.n > sz.p + cipherBlockSize + HEADER_SIZE

\* C10: in normal mode with headers, once the backing file holds the 8
\* header bytes, no read, write or truncate writes below offset 8, changes
\* those bytes or shrinks the file below 8 bytes.
C10_HeaderFrame ==
  [][(~reverseEncryption /\ haveHeader /\ Len(base.data) >= HEADER_SIZE
        /\ last'.op \in {"read", "write", "truncate"})
     => (/\ Len(base'.data) >= HEADER_SIZE
         /\ SubSeq(base'.data, 1, HEADER_SIZE) = SubSeq(base.data, 1, HEADER_SIZE)
         /\ \A i \in 1..Len(last'.calls) :
               last'.calls[i].call \in {"write", "truncate"}
                  => last'.calls[i].a >= HEADER_SIZE)]_vars

\* C10's case: a file whose header stores the instance's file IV is
\* truncated to nothing by a call that does not write the header; the
\* header is all that is left.
C10_TruncatedToHeader ==
  /\ ~reverseEncryption /\ haveHeader
  /\ last.op = "truncate" /\ last.a = 0 /\ last.res = 0
  /\ last.preFileIV # Zero64
  /\ "hdrWrite" \notin SitesOf(last.calls)
  /\ "baseTruncate" \in SitesOf(last.calls)
  /\ base.data = Shift(fileIV, StreamKey(U64(externalIV)))

\* C11: for a header-enabled regular file in normal mode, a setIV(newIV)
\* that is not the instance's first setIV and reports success leaves the
\* first 8 backing bytes equal to the file IV in use before the call,
\* stream-encrypted under newIV, and externalIV equal to newIV, whatever the
\* first call passed (0 included).
C11_HeaderRewritten ==
  [][(~reverseEncryption /\ haveHeader /\ ~base.isDir
        /\ last.op = "setIV" /\ last'.op = "setIV"
        /\ last'.res = 1 /\ ~last'.threw /\ fileIV # Zero64)
     => (/\ externalIV' = last'.a
         /\ Len(base'.data) >= HEADER_SIZE
         /\ SubSeq(base'.data, 1, HEADER_SIZE) = HeaderBytes(fileIV, last'.a))]_vars

\* C12: in normal mode with headers, in every state reached by open, read,
\* write, truncate and setIV calls: if fileIV is non-zero and the backing
\* file holds at least 8 bytes, its first 8 bytes decrypt under the current
\* externalIV to fileIV.
C12_HeaderHoldsFileIV ==
  (~reverseEncryption /\ haveHeader /\ fileIV # Zero64
     /\ Len(base.data) >= HEADER_SIZE)
  => SubSeq(base.data, 1, HEADER_SIZE) = HeaderBytes(fileIV, externalIV)

\* the opens among the calls an operation made on the backing file
OpensOf(calls) == SelectSeq(calls, LAMBDA x : x.call = "open")

\* C13: when truncate finds the backing file not writable and reopens it
\* read-write, the last open it issues before returning uses the original
\* lastFlags, whether the reopen, the header establishment or the truncate
\* failed or all succeeded; truncate never changes lastFlags.
C13_FlagsRestored ==
  [][(last'.op = "truncate" /\ ~last'.threw)
     => (/\ lastFlags' = lastFlags
         /\ ~baseIsWritable(base)
              => (/\ Len(OpensOf(last'.calls)) = 2
                  /\ OpensOf(last'.calls)[1].a = OrRDWR(lastFlags)
                  /\ OpensOf(last'.calls)[2].a = lastFlags))]_vars

\* C13's case: a truncate that reopened the file read-write and whose
\* backing truncate failed; its last call is the open with lastFlags, and
\* the file is read-only again.
C13_FailedTruncateRestored ==
  /\ last.op = "truncate" /\ last.fault = "baseTruncate" /\ ~last.threw
  /\ last.calls[1] = Call("open", "open", OrRDWR(lastFlags), 0)
  /\ last.calls[Len(last.calls)] = Call("open", "restore", lastFlags, 0)
  /\ ~baseIsWritable(base)

\* C16: after setIV returns, with success or with failure, the backing file
\* is open with the flags recorded in lastFlags: the temporary read-write
\* reopen is undone before setIV returns.
C16_SetIVRestoresFlags ==
  [][(last'.op = "setIV" /\ ~last'.threw /\ ~base.isDir
        /\ base.openFlags = lastFlags)
     => base'.openFlags = lastFlags']_vars

\* C15: in reverse mode with headers, writeOneBlock returns -EPERM and has
\* no effect: it makes no call of the backing file or the cipher and leaves
\* fileIV, externalIV and the backing file as they were.
C15_ReverseWriteRefused ==
  [][(reverseEncryption /\ haveHeader /\ last'.op = "write")
     => (/\ last'.res = 0 - EPERM
         /\ ~last'.threw
         /\ last'.calls = <<>>
         /\ fileIV' = fileIV
         /\ externalIV' = externalIV
         /\ base' = base)]_vars

\* C15's case: a write refused on a reverse mount whose instance already
\* holds a file IV (from a read of the virtual header) over a plaintext file
\* that is not empty.
C15_RefusedAfterRead ==
  /\ reverseEncryption /\ haveHeader
  /\ last.op = "write" /\ last.res = 0 - EPERM
  /\ fileIV # Zero64 /\ externalIV # 0
  /\ base.data # <<>>

\* C14: header round trip: for every non-zero 64-bit value v and every
\* external IV e, writeHeader with fileIV = v under e followed by initHeader
\* under e on the resulting backing file succeeds and sets fileIV = v.
C14_HeaderRoundTrip ==
  (last.op = "initHeader" /\ last.fault = "none")
  => (/\ last.res = 0 /\ ~last.threw
      /\ fileIV = wrote.fileIV
      /\ externalIV = wrote.externalIV)

\* C14's case: a value whose bytes are not a palindrome, written under a
\* non-zero external IV and read back.
C14_AsymmetricValueReadBack ==
  /\ last.op = "initHeader" /\ last.res = 0
  /\ wrote.externalIV = 2
  /\ wrote.fileIV = <<255, 1, 0, 0, 0, 0, 0, 1>>
  /\ fileIV = wrote.fileIV
  /\ base.data = HeaderBytes(fileIV, 2)

\* C17: in normal mode with padding, readOneBlock for block k (request
\* offset k * blockSize) fetches raw bytes starting at k * (blockSize + 1),
\* plus 8 with a header, for every request length in 1 .. blockSize.
C17_PaddedReadOffset ==
  (~reverseEncryption /\ haveCBCPadding /\ last.op = "readOneBlock")
  => (/\ last.calls[1].call = "read"
      /\ last.calls[1].a =
           (last.a * (blockSize + 1)) + (IF haveHeader THEN HEADER_SIZE ELSE 0))

\* the raw bytes the last readOneBlock fetched from the backing file
Fetched ==
  baseRead(Ctx, NoFault, "read", ReadOffset(last.a * blockSize, last.b),
           ReadLen(last.b)).buf

\* C18: with hole support in normal mode, when the raw bytes fetched for a
\* block are all zero, readOneBlock (asked for a block, as the chunker asks)
\* returns them unchanged with success and calls no cipher decode, for a
\* full block and for a final partial block, with and without padding.
C18_HolesPassThrough ==
  (~reverseEncryption /\ allowHoles /\ last.op = "readOneBlock"
     /\ last.b = blockSize /\ last.fault = "none" /\ ~last.threw
     /\ Fetched # <<>> /\ AllZero(Fetched))
  => (/\ last.res > 0
      /\ AllZero(last.buf)
      /\ "cipher" \notin SitesOf(last.calls))

\* the decoded buffer b is d data bytes (d >= 1), one 0x80 byte, then zeros
Padded(b, d) ==
  /\ d >= 1 /\ d < Len(b)
  /\ b[d + 1] = 128
  /\ \A j \in (d + 2)..Len(b) : b[j] = 0

\* C19: in normal mode with padding, once the fetched bytes are cut down to
\* a multiple of the cipher block size and decoded (non-empty): a buffer of
\* d >= 1 data bytes, one 0x80 byte and then only zeros gives d; an all-zero
\* buffer of blockSize + 1 bytes gives blockSize when hole support is on;
\* every other buffer gives -EBADMSG.
C19_PaddingShapes ==
  (~reverseEncryption /\ haveCBCPadding /\ last.op = "readOneBlock"
     /\ last.fault = "none" /\ ~last.threw
     /\ Len(Fetched) - (Len(Fetched) % cipherBlockSize) > 0)
  => (/\ Len(last.buf) = Len(Fetched) - (Len(Fetched) % cipherBlockSize)
      /\ \A d \in 1..Len(last.buf) : Padded(last.buf, d) => last.res = d
      /\ (AllZero(last.buf) /\ Len(last.buf) = blockSize + 1 /\ allowHoles)
           => last.res = blockSize
      /\ (/\ ~\E d \in 1..Len(last.buf) : Padded(last.buf, d)
          /\ ~(AllZero(last.buf) /\ Len(last.buf) = blockSize + 1 /\ allowHoles))
           => last.res = 0 - EBADMSG)

\* C19's case: the second block of a file with a header decodes to one data
\* byte, the marker and two zero bytes, and reads as one byte.
C19_ZeroPaddedBlockRead ==
  /\ ~reverseEncryption /\ haveCBCPadding /\ haveHeader
  /\ last.op = "readOneBlock" /\ last.a = 1 /\ last.b = blockSize
  /\ last.buf = <<65, 128, 0, 0>>
  /\ last.res = 1

\* C20: in every configuration and for every request, the cipher's block
\* mode (blockEncode, blockDecode) is called only with a buffer whose length
\* is a positive multiple of the cipher block size.
C20_BlockModeLengths ==
  \A i \in 1..Len(last.calls) :
     last.calls[i].call \in {"blockEncode", "blockDecode"}
        => (last.calls[i].b > 0 /\ last.calls[i].b % cipherBlockSize = 0)

\* C21: when header establishment (initHeader) fails, at the backing read,
\* the header decode, the random generation, the header encode or the
\* backing write, fileIV is 0 afterwards, so that the next read, write or
\* truncate establishes the header again.
C21_FailedInitHeaderLeavesNoIV ==
  (~reverseEncryption /\ haveHeader
     /\ last.op \in {"read", "write", "truncate"}
     /\ last.preFileIV = Zero64
     /\ last.fault \in {"hdrRead", "hdrDecode", "random", "hdrEncode", "hdrWrite"})
  => fileIV = Zero64

\* C22: for a backing regular file of any raw size, in every configuration,
\* getAttr and getSize fail their assertion on the same raw sizes, and when
\* they do not, the st_size getAttr reports is the value getSize returns and
\* is not negative; for an entry that is not a regular file getAttr leaves
\* st_size unchanged.
C22_AttrMatchesSize ==
  /\ sz.phase = "both"
       => (/\ sz.attr.threw = sz.size.threw
           /\ ~sz.attr.threw
                => (sz.attr.size = sz.size.size /\ sz.attr.size >= 0))
  /\ (sz.phase = "attr" /\ base.isDir)
       => (~sz.attr.threw /\ sz.attr.size = sz.raw)

\* C22's case: a padded regular file with a header, of more than one block,
\* whose size both calls shrink by the header, the padding block and one
\* byte per block.
C22_MultiBlockShrunk ==
  /\ sz.phase = "both" /\ ~reverseEncryption /\ haveHeader /\ haveCBCPadding
  /\ sz.raw > HEADER_SIZE + cipherBlockSize + cfgBlockSize
  /\ ~sz.attr.threw
  /\ sz.attr.size < (sz.raw - HEADER_SIZE) - cipherBlockSize
  /\ sz.attr.size = sz.size.size

====
